---- MODULE Spec2Model ----
(***************************************************************************)
(* Companies House MCP server (src/companies_house_mcp.py).                *)
(*                                                                         *)
(* The model follows one tool call from the moment it is received to the   *)
(* value it returns: the credential lookup of _get_client, the HTTP GET    *)
(* issued by _safe_request, the status mapping of _handle_response, and    *)
(* the report assembly of generate_company_report.                         *)
(*                                                                         *)
(* Encoding of Python / JSON values                                        *)
(*   str whose characters matter   a sequence of one-character strings     *)
(*   other str                     a TLA+ string                           *)
(*   None / JSON null              None  (= << >>)                         *)
(*   a present nullable value v    Some(v)  (= << v >>)                    *)
(*   dict / JSON object            a function whose DOMAIN is the key set  *)
(*   a value returned by a fetch   [isdict |-> BOOLEAN, obj |-> ...]       *)
(***************************************************************************)
EXTENDS Integers, Sequences, FiniteSets, TLC

VARIABLES
    COMPANIES_HOUSE_API_KEY,  \* process-wide default credential (line 14)
    registry,                 \* what the upstream registry holds for the company
    pc,                       \* position of the tool call
    tool,                     \* the tool that was called
    company_number,           \* its company_number argument
    api_key,                  \* its api_key argument
    profile,                  \* generate_company_report's locals
    officers_data,
    pscs_data,
    charges_data,
    calls,                    \* endpoints handed to _safe_request, in order
    requests,                 \* HTTP GETs issued by client.get, in order
    responses,                \* what the transport did with each GET, in order
    outcome,                  \* "none" | "returned" | "raised"
    result                    \* value returned (or exception raised) by the tool

vars == <<COMPANIES_HOUSE_API_KEY, registry, pc, tool, company_number, api_key,
          profile, officers_data, pscs_data, charges_data, calls, requests,
          responses, outcome, result>>

-----------------------------------------------------------------------------
(* Python values *)

None == << >>
Some(v) == << v >>

\* Python truthiness of an Optional[str]: None and "" are falsy.
Truthy(v) == v # None /\ v[1] # ""

\* Python's  a or b
PyOr(a, b) == IF Truthy(a) THEN a ELSE b

\* dict.get(key, default)
Get(d, key, default) == IF key \in DOMAIN d THEN d[key] ELSE default

\* dict.get(key): None when the key is absent
Lookup(d, key) == Get(d, key, None)

JsonObject(o) == [isdict |-> TRUE, obj |-> o]

\* a decoded JSON body that is not an object (an array)
JsonArray == [isdict |-> FALSE, obj |-> [json |-> "array"]]

\* a local that has not been assigned yet
Unset == [isdict |-> FALSE, obj |-> [unset |-> TRUE]]

Return(v) == [raised |-> "", value |-> v]
Raise(cls, msg) == [raised |-> cls, message |-> msg]

\* Exception classes and their base class (json, httpx and builtins).
ExcBase ==
    [ValueError |-> "Exception", JSONDecodeError |-> "ValueError",
     ConnectError |-> "Exception", ReadTimeout |-> "Exception",
     AttributeError |-> "Exception", Exception |-> "BaseException"]

RECURSIVE IsInstance(_, _)
IsInstance(cls, base) ==
    IF cls = base THEN TRUE
    ELSE IF cls \in DOMAIN ExcBase THEN IsInstance(ExcBase[cls], base)
    ELSE FALSE

\* str(e) of the exceptions the model raises
ExcMessage ==
    [ValueError |-> "No Companies House API key provided. Pass it as an argument or set COMPANIES_HOUSE_API_KEY env var.",
     JSONDecodeError |-> "Expecting value: line 1 column 1 (char 0)",
     ConnectError |-> "[Errno 111] Connection refused",
     ReadTimeout |-> "The read operation timed out",
     AttributeError |-> "'list' object has no attribute 'get'"]

-----------------------------------------------------------------------------
(* Helper functions, lines 24-68 *)

CH_BASE_URL == "https://api.company-information.service.gov.uk"

\* _get_client: the client carries the token actually used.
GetClient(key, default) ==
    LET token == PyOr(key, default)
    IN  IF ~Truthy(token)
        THEN Raise("ValueError", ExcMessage["ValueError"])
        ELSE Return([base_url |-> CH_BASE_URL, auth |-> token[1]])

\* response.json(): the decoded body, or JSONDecodeError.
ResponseJson(response) ==
    IF response.decodes THEN Return(response.body)
    ELSE Raise("JSONDecodeError", ExcMessage["JSONDecodeError"])

\* _handle_response
HandleResponse(response) ==
    IF response.status_code = 200 THEN ResponseJson(response)
    ELSE IF response.status_code = 404
    THEN Return(JsonObject([error |-> "NOT_FOUND", message |-> "Resource not found."]))
    ELSE IF response.status_code = 401
    THEN Return(JsonObject([error |-> "UNAUTHORISED", message |-> "Invalid API Key."]))
    ELSE IF response.status_code = 429
    THEN Return(JsonObject([error |-> "RATE_LIMIT", message |-> "Too many requests."]))
    ELSE Return(JsonObject([error |-> "API_ERROR",
                            status |-> response.status_code,
                            message |-> response.text]))

\* the two except clauses of _safe_request, tried in order
SafeRequestExcept(e) ==
    IF IsInstance(e.raised, "ValueError")
    THEN JsonObject([error |-> "CONFIGURATION_ERROR", message |-> e.message])
    ELSE JsonObject([error |-> "EXCEPTION", message |-> e.message])

\* Whether client.get is reached, i.e. an HTTP request is issued.
IssuesRequest(key, default) == GetClient(key, default).raised = ""

\* _safe_request.  `event` is what the transport does with the GET: it either
\* raises ([exc |-> class]) or delivers a response.
SafeRequest(key, default, event) ==
    LET client == GetClient(key, default)
    IN  IF client.raised # "" THEN SafeRequestExcept(client)
        ELSE IF "exc" \in DOMAIN event
        THEN SafeRequestExcept(Raise(event.exc, ExcMessage[event.exc]))
        ELSE LET handled == HandleResponse(event)
             IN  IF handled.raised # "" THEN SafeRequestExcept(handled)
                 ELSE handled.value

\* The GET as it goes on the wire.
HttpGet(endpoint, params, key, default) ==
    [url |-> endpoint, params |-> params,
     auth |-> GetClient(key, default).value.auth]

NoParams == [none |-> TRUE]

-----------------------------------------------------------------------------
(* Strings *)

LowerCase == <<"a","b","c","d","e","f","g","h","i","j","k","l","m","n","o","p","q","r","s","t","u","v","w","x","y","z">>
UpperCase == <<"A","B","C","D","E","F","G","H","I","J","K","L","M","N","O","P","Q","R","S","T","U","V","W","X","Y","Z">>

\* str.upper() of one character: a lower-case letter goes to its capital,
\* every other character is left alone.
UpperChar(c) ==
    IF \E i \in 1..Len(LowerCase) : LowerCase[i] = c
    THEN UpperCase[CHOOSE i \in 1..Len(LowerCase) : LowerCase[i] = c]
    ELSE c

\* str.upper()
Upper(s) == [i \in 1..Len(s) |-> UpperChar(s[i])]

\* Python's  sub in s  on strings
Contains(s, sub) ==
    \E k \in 0..(Len(s) - Len(sub)) : SubSeq(s, k + 1, k + Len(sub)) = sub

P75 == <<"7","5","-","t","o","-","1","0","0","-","p","e","r","c","e","n","t">>
P50 == <<"5","0","-","t","o","-","7","5","-","p","e","r","c","e","n","t">>
P25 == <<"2","5","-","t","o","-","5","0","-","p","e","r","c","e","n","t">>

-----------------------------------------------------------------------------
(* generate_company_report, lines 188-264 *)

\* a short-circuit that fires for a missing company only
IsError_NotFoundOnly(x) ==
    x.isdict /\ "error" \in DOMAIN x.obj /\ x.obj.error = "NOT_FOUND"

\* line 185: isinstance(x, dict) and "error" in x
IsError(x) == x.isdict /\ "error" \in DOMAIN x.obj

\* lines 190, 194, 199: x.get("items", []) if isinstance(x, dict) else []
Items(data) == IF data.isdict THEN Get(data.obj, "items", << >>) ELSE << >>

\* a total recomputed from the fetched page
ChargesCount_FromItems(data) == Len(Items(data))

\* line 198
ChargesCount(data) == IF data.isdict THEN Get(data.obj, "total_count", 0) ELSE 0

\* line 199: the comprehension, in list order
RECURSIVE ActiveCharges(_)
ActiveCharges(items) ==
    IF items = << >> THEN << >>
    ELSE LET c == Head(items)
             rest == ActiveCharges(Tail(items))
         IN  IF Lookup(c, "status") = Some("outstanding")
             THEN <<c>> \o rest ELSE rest

\* the bands tried from the lowest up
Ownership_LowestFirst(natures) ==
    IF \E i \in 1..Len(natures) : Contains(natures[i], P25) THEN "25% - 50%"
    ELSE IF \E i \in 1..Len(natures) : Contains(natures[i], P50) THEN "50% - 75%"
    ELSE IF \E i \in 1..Len(natures) : Contains(natures[i], P75) THEN "75% - 100%"
    ELSE "Unknown"

\* lines 206-214
Ownership(natures) ==
    IF \E i \in 1..Len(natures) : Contains(natures[i], P75) THEN "75% - 100%"
    ELSE IF \E i \in 1..Len(natures) : Contains(natures[i], P50) THEN "50% - 75%"
    ELSE IF \E i \in 1..Len(natures) : Contains(natures[i], P25) THEN "25% - 50%"
    ELSE "Unknown"

\* line 216
PscKey(psc) == Upper(Get(psc, "name", Some(<< >>))[1])

\* psc_map.setdefault(name, ownership): the first PSC of a name is kept
MapPut_KeepFirst(map, key, value) ==
    [k \in DOMAIN map \cup {key} |-> IF k \in DOMAIN map THEN map[k] ELSE value]

\* line 217: psc_map[name] = ownership
MapPut(map, key, value) ==
    [k \in DOMAIN map \cup {key} |-> IF k = key THEN value ELSE map[k]]

\* lines 219-226
BeneficialOwner(psc) ==
    [name |-> Lookup(psc, "name"),
     kind |-> Lookup(psc, "kind"),
     nationality |-> Lookup(psc, "nationality"),
     country_of_residence |-> Lookup(psc, "country_of_residence"),
     ownership_percentage |-> Ownership(Get(psc, "natures_of_control", << >>)),
     natures_of_control |-> Get(psc, "natures_of_control", << >>)]

\* a loop that leaves the PSCs of band "Unknown" out of beneficial_owners
RECURSIVE ProcessPscs_SkipUnknown(_, _, _, _)
ProcessPscs_SkipUnknown(pscs, i, psc_map, beneficial_owners) ==
    IF i > Len(pscs)
    THEN [psc_map |-> psc_map, beneficial_owners |-> beneficial_owners]
    ELSE LET psc == pscs[i]
             ownership == Ownership(Get(psc, "natures_of_control", << >>))
         IN  ProcessPscs_SkipUnknown(pscs, i + 1,
                 MapPut(psc_map, PscKey(psc), ownership),
                 IF ownership = "Unknown" THEN beneficial_owners
                 ELSE Append(beneficial_owners, BeneficialOwner(psc)))

\* lines 202-226: the loop over pscs, from index i on
RECURSIVE ProcessPscs(_, _, _, _)
ProcessPscs(pscs, i, psc_map, beneficial_owners) ==
    IF i > Len(pscs)
    THEN [psc_map |-> psc_map, beneficial_owners |-> beneficial_owners]
    ELSE LET psc == pscs[i]
             ownership == Ownership(Get(psc, "natures_of_control", << >>))
         IN  ProcessPscs(pscs, i + 1,
                         MapPut(psc_map, PscKey(psc), ownership),
                         Append(beneficial_owners, BeneficialOwner(psc)))

EmptyMap == [k \in {} |-> "Unknown"]

\* o["resigned_on"] is None, an absent key counting as resigned
IsActive_KeyRequired(o) == "resigned_on" \in DOMAIN o /\ o["resigned_on"] = None

\* line 231
IsActive(o) == Lookup(o, "resigned_on") = None

\* lines 232-235
DirectorOwnership(o, psc_map) ==
    LET dir_name == Upper(Get(o, "name", Some(<< >>))[1])
    IN  IF dir_name \in DOMAIN psc_map THEN psc_map[dir_name]
        ELSE "0% (Not a PSC)"

\* lines 237-244
ActiveDirector(o, psc_map) ==
    [name |-> Lookup(o, "name"),
     role |-> Lookup(o, "officer_role"),
     appointed |-> Lookup(o, "appointed_on"),
     nationality |-> Lookup(o, "nationality"),
     country_of_residence |-> Lookup(o, "country_of_residence"),
     ownership_percentage |-> DirectorOwnership(o, psc_map)]

\* lines 229-244: the loop over officers, from index i on
RECURSIVE ProcessOfficers(_, _, _, _)
ProcessOfficers(officers, i, psc_map, active_directors) ==
    IF i > Len(officers) THEN active_directors
    ELSE LET o == officers[i]
         IN  ProcessOfficers(officers, i + 1, psc_map,
                 IF IsActive(o)
                 THEN Append(active_directors, ActiveDirector(o, psc_map))
                 ELSE active_directors)

\* lines 247-262
Report(prof, officers, active_directors, beneficial_owners, charges_count, active_charges) ==
    [company_name |-> Lookup(prof, "company_name"),
     company_number |-> Lookup(prof, "company_number"),
     status |-> Lookup(prof, "company_status"),
     type |-> Lookup(prof, "type"),
     incorporation_date |-> Lookup(prof, "date_of_creation"),
     registered_address |-> Lookup(prof, "registered_office_address"),
     officers_count |-> Len(officers),
     active_directors |-> active_directors,
     beneficial_owners |-> beneficial_owners,
     charges_summary |-> [total_charges |-> charges_count,
                          outstanding_charges |-> Len(active_charges)],
     full_profile_source |-> prof]

\* lines 190-264, once the four fetches are in.  profile.get on line 248
\* raises AttributeError when the profile body is not an object.
Assemble(prof, off_data, psc_data, chg_data) ==
    LET officers == Items(off_data)
        pscs == Items(psc_data)
        charges_count == ChargesCount(chg_data)
        active_charges == ActiveCharges(Items(chg_data))
        processed == ProcessPscs(pscs, 1, EmptyMap, << >>)
        active_directors == ProcessOfficers(officers, 1, processed.psc_map, << >>)
    IN  IF ~prof.isdict
        THEN Raise("AttributeError", ExcMessage["AttributeError"])
        ELSE Return(JsonObject(Report(prof.obj, officers, active_directors,
                                      processed.beneficial_owners,
                                      charges_count, active_charges)))

-----------------------------------------------------------------------------
(* The upstream registry: names, control tags and the bodies it serves *)

JOHN_SMITH == <<"J","O","H","N"," ","S","M","I","T","H">>
John_Smith == <<"J","o","h","n"," ","S","m","i","t","h">>
john_smith == <<"j","o","h","n"," ","s","m","i","t","h">>
SMITH_John == <<"S","M","I","T","H",","," ","J","o","h","n">>
JANE_DOE == <<"J","A","N","E"," ","D","O","E">>

OwnershipOfShares == <<"o","w","n","e","r","s","h","i","p","-","o","f","-","s","h","a","r","e","s","-">>
VotingRights == <<"v","o","t","i","n","g","-","r","i","g","h","t","s","-">>
AsTrust == <<"-","a","s","-","t","r","u","s","t">>

TagOwn75 == OwnershipOfShares \o P75
TagVote50 == VotingRights \o P50
TagOwn25Trust == OwnershipOfShares \o P25 \o AsTrust
TagBare25 == P25
\* one character short of the 75-100 substring
TagNear75 == OwnershipOfShares \o SubSeq(P75, 1, Len(P75) - 1)
TagAppoint == <<"r","i","g","h","t","-","t","o","-","a","p","p","o","i","n","t","-","a","n","d","-","r","e","m","o","v","e","-","d","i","r","e","c","t","o","r","s">>

TagPool == {TagOwn75, TagVote50, TagOwn25Trust, TagBare25, TagNear75, TagAppoint}

\* all sequences over S of length at most n
SeqsUpTo(S, n) == UNION {[1..k -> S] : k \in 0..n}

MaxTags == 3
MaxOfficers == 2
MaxPscs == 2
MaxCharges == 3

AcmeProfile ==
    [company_name |-> Some("ACME LTD"), company_number |-> Some("12345678"),
     company_status |-> Some("active")]

FullProfile ==
    [company_name |-> Some("BARCLAYS BANK PLC"), company_number |-> Some("00000006"),
     company_status |-> Some("active"), type |-> Some("plc"),
     date_of_creation |-> Some("1896-07-20"),
     registered_office_address |-> Some("1 Churchill Place, London")]

Director(name, resigned) ==
    [name |-> Some(name), officer_role |-> Some("director"),
     appointed_on |-> Some("2019-06-01"), resigned_on |-> resigned]

\* an officer whose record carries no resigned_on key
DirectorNoKey(name) == [name |-> Some(name), officer_role |-> Some("director")]

\* an officer whose record carries no name key
Nameless(resigned) == [officer_role |-> Some("secretary"), resigned_on |-> resigned]

Psc(name, natures) ==
    [name |-> Some(name), kind |-> Some("individual-person-with-significant-control"),
     nationality |-> Some("British"), natures_of_control |-> natures]

\* a PSC record with neither name nor natures_of_control
PscBare == [kind |-> Some("super-secure-person-with-significant-control")]

Charge(status) == [status |-> Some(status), charge_number |-> 1]
ChargeNoStatus == [charge_number |-> 2]

World(prof, officers, pscs, charges) ==
    [profile |-> prof, officers |-> officers, pscs |-> pscs, charges |-> charges,
     other |-> [etag |-> "0a1b2c"]]

ItemsBody(items) == [items |-> items]

\* the scenario of the specification, and a company with more of everything
AcmeWorld ==
    World(AcmeProfile,
          ItemsBody(<<Director(JOHN_SMITH, None)>>),
          ItemsBody(<<Psc(JOHN_SMITH, <<TagVote50>>)>>),
          [total_count |-> 2, items |-> <<Charge("outstanding"), Charge("satisfied")>>])

BigWorld ==
    World(FullProfile,
          ItemsBody(<<Director(JANE_DOE, Some("2021-03-31")), DirectorNoKey(John_Smith),
                      Director(JANE_DOE, None)>>),
          ItemsBody(<<Psc(JOHN_SMITH, <<TagOwn25Trust, TagOwn75>>), PscBare>>),
          [total_count |-> 40, items |-> <<Charge("outstanding"), Charge("outstanding")>>])

FlowWorlds == {AcmeWorld, BigWorld}

OfficerPool ==
    {Director(n, r) : n \in {JOHN_SMITH, JANE_DOE}, r \in {None, Some("2021-03-31")}}
    \cup {DirectorNoKey(JOHN_SMITH), Nameless(None), Nameless(Some("2020-01-01"))}

MatchOfficerPool ==
    {Director(John_Smith, None), Director(SMITH_John, None), Nameless(None)}

\* a PSC record with control tags and no name
PscNameless == [natures_of_control |-> <<TagBare25>>]

MatchPscPool ==
    {Psc(JOHN_SMITH, <<TagOwn75>>), Psc(john_smith, << >>), PscBare, PscNameless}

OwnerPscPool ==
    {Psc(n, t) : n \in {JOHN_SMITH, JANE_DOE},
                 t \in {<<TagOwn75>>, << >>, <<TagAppoint>>, <<TagBare25, TagVote50>>}}
    \cup {PscBare}

ChargePool ==
    {Charge(s) : s \in {"outstanding", "Outstanding", "satisfied"}} \cup {ChargeNoStatus}

\* one PSC, every list of control tags
BandWorld(tags) ==
    World(AcmeProfile, ItemsBody(<<Director(JOHN_SMITH, None)>>),
          ItemsBody(<<Psc(JOHN_SMITH, tags)>>), ItemsBody(<< >>))

\* every list of officers, resigned or not
OfficerWorld(officers) ==
    World(AcmeProfile, ItemsBody(officers),
          ItemsBody(<<Psc(JOHN_SMITH, <<TagOwn75>>)>>), ItemsBody(<< >>))

\* officers against PSCs whose names agree, differ in case, or differ
MatchWorld(officers, pscs) ==
    World(AcmeProfile, ItemsBody(officers), ItemsBody(pscs), ItemsBody(<< >>))

\* every list of PSCs
OwnerWorld(pscs) ==
    World(AcmeProfile, ItemsBody(<< >>), ItemsBody(pscs), ItemsBody(<< >>))

\* every charges page, with and without a total_count and an items key
ChargeBodies ==
    {[total_count |-> n, items |-> i]
        : n \in {0, 2, 250}, i \in SeqsUpTo(ChargePool, MaxCharges)}
    \cup {ItemsBody(i) : i \in SeqsUpTo(ChargePool, MaxCharges)}
    \cup {[total_count |-> 7]}

ChargeWorld(charges) ==
    World(AcmeProfile, ItemsBody(<< >>), ItemsBody(<< >>), charges)

-----------------------------------------------------------------------------
(* The transport: what one GET can come back with *)

\* the body the registry serves for a resource
ServedBody(resource) ==
    [text |-> "{...}", decodes |-> TRUE, body |-> JsonObject(registry[resource])]

\* a JSON body that is an array, not an object
ArrayBody == [text |-> "[]", decodes |-> TRUE, body |-> JsonArray]

\* a JSON object that itself carries an "error" key
ErrorShapedBody ==
    [text |-> "{\"error\": \"Invalid Authorization\"}", decodes |-> TRUE,
     body |-> JsonObject([error |-> "Invalid Authorization"])]

\* a body that is not JSON at all
HtmlBody == [text |-> "<html>Service</html>", decodes |-> FALSE, body |-> JsonArray]

Response(status, b) ==
    [status_code |-> status, text |-> b.text, decodes |-> b.decodes, body |-> b.body]

\* client.get raising instead of returning
TransportFailures == {[exc |-> "ConnectError"], [exc |-> "ReadTimeout"]}

AllStatuses == 100..599
FlowStatuses == {200, 201, 401, 404, 429, 500}

\* every outcome of a GET for `resource`: a 200 with any body, another status
\* of `statuses` with a body of `bodies`, or a transport failure
Events(resource, statuses, bodies) ==
    {Response(200, b) :
        b \in {ServedBody(resource), ArrayBody, ErrorShapedBody, HtmlBody}}
    \cup {Response(st, b) : st \in statuses \ {200}, b \in bodies}
    \cup TransportFailures

\* the GET succeeds and the registry's body comes back
Served(resource) == {Response(200, ServedBody(resource))}

-----------------------------------------------------------------------------
(* The tools, lines 74-168 and 170-199 *)

CompanyNumbers == {"00000006", "12345678"}
ApiKeys == {None, Some(""), Some("call-key")}
EnvKeys == {None, Some(""), Some("env-key")}

\* the eight pass-through tools: endpoint, params and the registry resource
\* their endpoint serves
PassThrough(cn) ==
    [search_companies |->
        [endpoint |-> <<"/search/companies">>,
         params |-> [q |-> "Barclays", items_per_page |-> 5, start_index |-> 0],
         resource |-> "other"],
     get_company_profile |->
        [endpoint |-> <<"/company/", cn>>, params |-> NoParams, resource |-> "profile"],
     get_company_officers |->
        [endpoint |-> <<"/company/", cn, "/officers">>,
         params |-> [items_per_page |-> 20], resource |-> "officers"],
     get_filing_history |->
        [endpoint |-> <<"/company/", cn, "/filing-history">>,
         params |-> [items_per_page |-> 20], resource |-> "other"],
     get_company_charges |->
        [endpoint |-> <<"/company/", cn, "/charges">>, params |-> NoParams,
         resource |-> "charges"],
     get_company_insolvency |->
        [endpoint |-> <<"/company/", cn, "/insolvency">>, params |-> NoParams,
         resource |-> "other"],
     get_persons_with_significant_control |->
        [endpoint |-> <<"/company/", cn, "/persons-with-significant-control">>,
         params |-> NoParams, resource |-> "pscs"],
     get_registered_office_address |->
        [endpoint |-> <<"/company/", cn, "/registered-office-address">>,
         params |-> NoParams, resource |-> "other"]]

\* the four fetches of generate_company_report, lines 184, 189, 193, 197
ReportFetch(cn) ==
    [profile |-> [endpoint |-> <<"/company/", cn>>, params |-> NoParams],
     officers |-> [endpoint |-> <<"/company/", cn, "/officers">>,
                   params |-> [items_per_page |-> 100]],
     pscs |-> [endpoint |-> <<"/company/", cn, "/persons-with-significant-control">>,
               params |-> NoParams],
     charges |-> [endpoint |-> <<"/company/", cn, "/charges">>, params |-> NoParams]]

\* the bookkeeping of one _safe_request call: the call is logged, and the GET
\* and what came back are logged when client.get is reached
Logs(endpoint, params, key, event) ==
    /\ calls' = Append(calls, endpoint)
    /\ IF IssuesRequest(key, COMPANIES_HOUSE_API_KEY)
       THEN /\ requests' = Append(requests, HttpGet(endpoint, params, key,
                                                    COMPANIES_HOUSE_API_KEY))
            /\ responses' = Append(responses, event)
       ELSE UNCHANGED <<requests, responses>>

\* a pass-through tool, called and returned
CallPassThrough(cns, keys, statuses, bodies) ==
    /\ pc = "idle"
    /\ \E t \in DOMAIN PassThrough(""), cn \in cns, key \in keys :
      \E event \in Events(PassThrough(cn)[t].resource, statuses, bodies) :
        /\ tool' = t
        /\ company_number' = cn
        /\ api_key' = key
        /\ Logs(PassThrough(cn)[t].endpoint, PassThrough(cn)[t].params, key, event)
        /\ result' = SafeRequest(key, COMPANIES_HOUSE_API_KEY, event)
        /\ outcome' = "returned"
        /\ pc' = "done"
        /\ UNCHANGED <<COMPANIES_HOUSE_API_KEY, registry, profile, officers_data,
                       pscs_data, charges_data>>

\* generate_company_report is called
CallReport(cns, keys) ==
    /\ pc = "idle"
    /\ \E cn \in cns, key \in keys :
        /\ tool' = "generate_company_report"
        /\ company_number' = cn
        /\ api_key' = key
        /\ pc' = "profile"
        /\ UNCHANGED <<COMPANIES_HOUSE_API_KEY, registry, profile, officers_data,
                       pscs_data, charges_data, calls, requests, responses, outcome,
                       result>>

\* lines 184-186
FetchProfile(events) ==
    /\ pc = "profile"
    /\ \E event \in events :
        /\ Logs(ReportFetch(company_number).profile.endpoint,
                ReportFetch(company_number).profile.params, api_key, event)
        /\ profile' = SafeRequest(api_key, COMPANIES_HOUSE_API_KEY, event)
        /\ IF IsError(profile')
           THEN /\ result' = profile'
                /\ outcome' = "returned"
                /\ pc' = "done"
           ELSE /\ pc' = "officers"
                /\ UNCHANGED <<result, outcome>>
        /\ UNCHANGED <<COMPANIES_HOUSE_API_KEY, registry, tool, company_number, api_key,
                       officers_data, pscs_data, charges_data>>

\* an officers fetch that is issued a second time when it fails
FetchOfficers_Retry(events) ==
    /\ pc = "officers"
    /\ \E event \in events :
        /\ officers_data' = SafeRequest(api_key, COMPANIES_HOUSE_API_KEY, event)
        /\ calls' = IF IsError(officers_data')
                    THEN calls \o <<ReportFetch(company_number).officers.endpoint,
                                    ReportFetch(company_number).officers.endpoint>>
                    ELSE Append(calls, ReportFetch(company_number).officers.endpoint)
        /\ pc' = "pscs"
        /\ UNCHANGED <<COMPANIES_HOUSE_API_KEY, registry, tool, company_number, api_key,
                       profile, pscs_data, charges_data, requests, responses, outcome,
                       result>>

\* line 189
FetchOfficers(events) ==
    /\ pc = "officers"
    /\ \E event \in events :
        /\ Logs(ReportFetch(company_number).officers.endpoint,
                ReportFetch(company_number).officers.params, api_key, event)
        /\ officers_data' = SafeRequest(api_key, COMPANIES_HOUSE_API_KEY, event)
        /\ pc' = "pscs"
        /\ UNCHANGED <<COMPANIES_HOUSE_API_KEY, registry, tool, company_number, api_key,
                       profile, pscs_data, charges_data, outcome, result>>

\* a PSC fetch that fails fast, the way the profile fetch does
FetchPscs_FailFast(events) ==
    /\ pc = "pscs"
    /\ \E event \in events :
        /\ Logs(ReportFetch(company_number).pscs.endpoint,
                ReportFetch(company_number).pscs.params, api_key, event)
        /\ pscs_data' = SafeRequest(api_key, COMPANIES_HOUSE_API_KEY, event)
        /\ IF IsError(pscs_data')
           THEN /\ result' = pscs_data'
                /\ outcome' = "returned"
                /\ pc' = "done"
           ELSE /\ pc' = "charges"
                /\ UNCHANGED <<result, outcome>>
        /\ UNCHANGED <<COMPANIES_HOUSE_API_KEY, registry, tool, company_number, api_key,
                       profile, officers_data, charges_data>>

\* line 193
FetchPscs(events) ==
    /\ pc = "pscs"
    /\ \E event \in events :
        /\ Logs(ReportFetch(company_number).pscs.endpoint,
                ReportFetch(company_number).pscs.params, api_key, event)
        /\ pscs_data' = SafeRequest(api_key, COMPANIES_HOUSE_API_KEY, event)
        /\ pc' = "charges"
        /\ UNCHANGED <<COMPANIES_HOUSE_API_KEY, registry, tool, company_number, api_key,
                       profile, officers_data, charges_data, outcome, result>>

\* line 197
FetchCharges(events) ==
    /\ pc = "charges"
    /\ \E event \in events :
        /\ Logs(ReportFetch(company_number).charges.endpoint,
                ReportFetch(company_number).charges.params, api_key, event)
        /\ charges_data' = SafeRequest(api_key, COMPANIES_HOUSE_API_KEY, event)
        /\ pc' = "assemble"
        /\ UNCHANGED <<COMPANIES_HOUSE_API_KEY, registry, tool, company_number, api_key,
                       profile, officers_data, pscs_data, outcome, result>>

\* lines 198-264: the report is built and returned, or line 248 raises
BuildReport ==
    /\ pc = "assemble"
    /\ LET built == Assemble(profile, officers_data, pscs_data, charges_data)
       IN  IF built.raised # ""
           THEN /\ outcome' = "raised"
                /\ result' = JsonObject([raised |-> built.raised, message |-> built.message])
           ELSE /\ outcome' = "returned"
                /\ result' = built.value
    /\ pc' = "done"
    /\ UNCHANGED <<COMPANIES_HOUSE_API_KEY, registry, tool, company_number, api_key,
                   profile, officers_data, pscs_data, charges_data, calls, requests,
                   responses>>

-----------------------------------------------------------------------------
(* Specifications *)

InitWith(envKeys) ==
    /\ COMPANIES_HOUSE_API_KEY \in envKeys
    /\ pc = "idle"
    /\ tool = "none"
    /\ company_number = ""
    /\ api_key = None
    /\ profile = Unset
    /\ officers_data = Unset
    /\ pscs_data = Unset
    /\ charges_data = Unset
    /\ calls = << >>
    /\ requests = << >>
    /\ responses = << >>
    /\ outcome = "none"
    /\ result = Unset

\* Any tool, any credential, any transport outcome, over two companies.
Init == InitWith(EnvKeys) /\ registry \in FlowWorlds

Next ==
    \/ CallPassThrough(CompanyNumbers, ApiKeys, FlowStatuses, {ErrorShapedBody})
    \/ CallReport(CompanyNumbers, ApiKeys)
    \/ FetchProfile(Events("profile", FlowStatuses, {ErrorShapedBody}))
    \/ FetchOfficers(Events("officers", FlowStatuses, {ErrorShapedBody}))
    \/ FetchPscs(Events("pscs", FlowStatuses, {ErrorShapedBody}))
    \/ FetchCharges(Events("charges", FlowStatuses, {ErrorShapedBody}))
    \/ BuildReport

Spec == Init /\ [][Next]_vars

\* One pass-through call, over every HTTP status.
InitStatus == InitWith({Some("env-key")}) /\ registry = AcmeWorld

NextStatus ==
    CallPassThrough({"00000006"}, {None, Some("call-key")}, AllStatuses,
                    {ErrorShapedBody, HtmlBody})

SpecStatus == InitStatus /\ [][NextStatus]_vars

\* generate_company_report over a wide range of registry contents, every
\* fetch being served.
InitReport ==
    /\ InitWith({Some("env-key")})
    /\ \/ \E t \in SeqsUpTo(TagPool, MaxTags) : registry = BandWorld(t)
       \/ \E o \in SeqsUpTo(OfficerPool, MaxOfficers) : registry = OfficerWorld(o)
       \/ \E o \in SeqsUpTo(MatchOfficerPool, MaxOfficers),
             p \in SeqsUpTo(MatchPscPool, MaxPscs) : registry = MatchWorld(o, p)
       \/ \E p \in SeqsUpTo(OwnerPscPool, MaxPscs) : registry = OwnerWorld(p)
       \/ \E c \in ChargeBodies : registry = ChargeWorld(c)

NextReport ==
    \/ CallReport({"12345678"}, {None})
    \/ FetchProfile(Served("profile"))
    \/ FetchOfficers(Served("officers"))
    \/ FetchPscs(Served("pscs"))
    \/ FetchCharges(Served("charges"))
    \/ BuildReport

SpecReport == InitReport /\ [][NextReport]_vars

-----------------------------------------------------------------------------
(* Properties: vocabulary *)

\* the failure signal: an object that carries an "error" key
HasErrorTag(x) == x.isdict /\ "error" \in DOMAIN x.obj

HasTag(x, tag) == HasErrorTag(x) /\ x.obj.error = tag

ReportCall == tool = "generate_company_report"

Finished == pc = "done"

\* a composite report came back
ReportReturned ==
    /\ ReportCall /\ Finished /\ outcome = "returned"
    /\ result.isdict /\ "active_directors" \in DOMAIN result.obj

IsPrefix(s, t) == Len(s) <= Len(t) /\ s = SubSeq(t, 1, Len(s))

\* the four endpoints of a report, in the order of section 5
FourFetches(cn) ==
    << <<"/company/", cn>>,
       <<"/company/", cn, "/officers">>,
       <<"/company/", cn, "/persons-with-significant-control">>,
       <<"/company/", cn, "/charges">> >>

\* what a sub-resource fetch returns when the registry holds nothing
EmptyResult == JsonObject([items |-> << >>])

AsIfEmpty(data) == IF HasErrorTag(data) THEN EmptyResult ELSE data

-----------------------------------------------------------------------------
(* Properties of the request flow, checked under Spec *)

\* C1: when the profile fetch of generate_company_report comes back carrying
\* an error tag, the call is over: it returned that very object, exactly one
\* fetch was made (the profile one) and no officers, PSC or charges fetch.
C1_ProfileFailureShortCircuits ==
    (ReportCall /\ HasErrorTag(profile)) =>
        /\ Finished
        /\ outcome = "returned"
        /\ result = profile
        /\ Len(calls) = 1
        /\ calls[1] = <<"/company/", company_number>>
        /\ Len(requests) <= 1
        /\ officers_data = Unset /\ pscs_data = Unset /\ charges_data = Unset

C1_Witness ==
    /\ ReportCall /\ Finished
    /\ HasTag(profile, "RATE_LIMIT")
    /\ result = profile
    /\ Len(calls) = 1 /\ Len(requests) = 1

\* C2: when the profile fetch carries no error tag, an error tag on the
\* officers, PSC or charges fetch does not abort the call: the call ends as
\* it would have ended had every failed fetch returned an empty result, and,
\* the profile being an object, that end is a report whose failed parts are
\* the defaults ([] / [] / 0 and 0) and whose profile fields are populated.
C2_SubFetchFailureDegrades ==
    (ReportCall /\ Finished /\ ~HasErrorTag(profile)) =>
        LET asIfEmpty == Assemble(profile, AsIfEmpty(officers_data),
                                  AsIfEmpty(pscs_data), AsIfEmpty(charges_data))
        IN  /\ IF asIfEmpty.raised # "" THEN outcome = "raised"
               ELSE outcome = "returned" /\ result = asIfEmpty.value
            /\ profile.isdict =>
                 /\ ReportReturned
                 /\ result.obj.full_profile_source = profile.obj
                 /\ result.obj.company_name = profile.obj.company_name
                 /\ HasErrorTag(officers_data) =>
                        /\ result.obj.active_directors = << >>
                        /\ result.obj.officers_count = 0
                 /\ HasErrorTag(pscs_data) => result.obj.beneficial_owners = << >>
                 /\ HasErrorTag(charges_data) =>
                        result.obj.charges_summary =
                            [total_charges |-> 0, outstanding_charges |-> 0]

C2_Witness ==
    /\ ReportReturned
    /\ HasTag(pscs_data, "EXCEPTION")
    /\ HasTag(charges_data, "API_ERROR")
    /\ ~HasErrorTag(officers_data)
    /\ result.obj.beneficial_owners = << >>
    /\ result.obj.active_directors # << >>
    /\ result.obj.charges_summary.total_charges = 0

\* C3: the fetches of a report are made one after another in the order
\* profile, officers, PSCs, charges: a fetch is made only once every earlier
\* one has returned, each makes at most one GET, and a call whose profile
\* carries no error tag ends with exactly these four fetches, each made once,
\* whatever the other three came back with.
C3_FourFetchesInOrder ==
    ReportCall =>
        /\ IsPrefix(calls, FourFetches(company_number))
        /\ Len(requests) <= Len(calls)
        /\ \A i \in 1..Len(requests) : requests[i].url = calls[i]
        /\ Len(calls) = Cardinality({i \in 1..4 :
               <<profile, officers_data, pscs_data, charges_data>>[i] # Unset})
        /\ (Finished /\ ~HasErrorTag(profile)) =>
               /\ calls = FourFetches(company_number)
               /\ Len(requests) = 4
               /\ Len(responses) = 4

C3_Witness ==
    /\ ReportCall /\ Finished
    /\ ~HasErrorTag(profile)
    /\ HasTag(officers_data, "EXCEPTION")
    /\ HasTag(pscs_data, "RATE_LIMIT")
    /\ HasTag(charges_data, "NOT_FOUND")
    /\ calls = FourFetches(company_number)

-----------------------------------------------------------------------------
(* Properties of the response normalizer, checked under SpecStatus *)

\* the response the transport delivered to a pass-through call
Delivered ==
    /\ ~ReportCall /\ Finished
    /\ Len(responses) = 1
    /\ "status_code" \in DOMAIN responses[1]

\* C9: every 2xx status with a decodable body yields the decoded body and no
\* 2xx status is given a tag of the taxonomy; 404 yields NOT_FOUND, 401
\* UNAUTHORISED, 429 RATE_LIMIT; API_ERROR, with the upstream status and the
\* raw body text, is produced for exactly the remaining non-2xx statuses.
C9_StatusTaxonomy ==
    Delivered =>
        LET r == responses[1]
            st == r.status_code
            is2xx == st \in 200..299
        IN  /\ (is2xx /\ r.decodes) => result = r.body
            /\ is2xx => /\ ~HasTag(result, "API_ERROR")
                        /\ ~HasTag(result, "NOT_FOUND")
                        /\ ~HasTag(result, "UNAUTHORISED")
                        /\ ~HasTag(result, "RATE_LIMIT")
            /\ st = 404 => HasTag(result, "NOT_FOUND")
            /\ st = 401 => HasTag(result, "UNAUTHORISED")
            /\ st = 429 => HasTag(result, "RATE_LIMIT")
            /\ HasTag(result, "API_ERROR") <=> (~is2xx /\ st \notin {401, 404, 429})
            /\ HasTag(result, "API_ERROR") =>
                   result.obj.status = st /\ result.obj.message = r.text

-----------------------------------------------------------------------------
(* Properties of the credential lookup and of _safe_request, checked under Spec *)

\* neither a per-call credential nor the process-wide default
NoCredential == ~Truthy(api_key) /\ ~Truthy(COMPANIES_HOUSE_API_KEY)

\* what the first _safe_request of the tool call returned
FirstFetched == IF ReportCall THEN profile ELSE result

\* C10: a tool call returns CONFIGURATION_ERROR exactly when no credential is
\* available, and then no HTTP request is issued; a failure raised while the
\* request is performed (the transport raising, the body not decoding as
\* JSON) is returned as EXCEPTION; the credential sent is the per-call one
\* when one is given and the default otherwise.
C10_CredentialAndException ==
    (Finished /\ outcome = "returned") =>
        /\ HasTag(result, "CONFIGURATION_ERROR") <=> NoCredential
        /\ NoCredential => requests = << >>
        /\ (Len(responses) >= 1 /\ "exc" \in DOMAIN responses[1]) =>
               HasTag(FirstFetched, "EXCEPTION")
        /\ (/\ Len(responses) >= 1
            /\ "status_code" \in DOMAIN responses[1]
            /\ responses[1].status_code = 200
            /\ ~responses[1].decodes) => HasTag(FirstFetched, "EXCEPTION")
        /\ \A i \in 1..Len(requests) :
               requests[i].auth = IF Truthy(api_key) THEN api_key[1]
                                  ELSE COMPANIES_HOUSE_API_KEY[1]

-----------------------------------------------------------------------------
(* Properties of the report, checked under SpecReport *)

\* the items a fetch brought back
Fetched(data) ==
    IF data.isdict /\ "items" \in DOMAIN data.obj THEN data.obj.items ELSE << >>

\* a field of an upstream item, None when the item has no such key
Field(item, key) == IF key \in DOMAIN item THEN item[key] ELSE None

NaturesOf(psc) ==
    IF "natures_of_control" \in DOMAIN psc THEN psc.natures_of_control ELSE << >>

\* the name of an item as a string, "" when it has none
NameOf(item) == IF "name" \in DOMAIN item THEN item.name[1] ELSE << >>

Max(S) == CHOOSE x \in S : \A y \in S : y <= x

\* sub occurs in s: at some offset a, the characters of sub follow one by one
Occurs(sub, s) ==
    \E a \in 0..Len(s) :
        /\ a + Len(sub) <= Len(s)
        /\ \A k \in 1..Len(sub) : s[a + k] = sub[k]

BandSubstrings == <<P25, P50, P75>>
BandNames == <<"25% - 50%", "50% - 75%", "75% - 100%">>

\* the highest band some tag of the set names, "Unknown" when none does
HighestBand(tags) ==
    LET named == {r \in 1..3 : \E t \in tags : Occurs(BandSubstrings[r], t)}
    IN  IF named = {} THEN "Unknown" ELSE BandNames[Max(named)]

TagSet(natures) == {natures[i] : i \in 1..Len(natures)}

BandOf(psc) == HighestBand(TagSet(NaturesOf(psc)))

\* the officers with no resignation date, by position
Unresigned(o) == "resigned_on" \notin DOMAIN o \/ o.resigned_on = None
ActiveIdx == {i \in 1..Len(Fetched(officers_data)) : Unresigned(Fetched(officers_data)[i])}
Rank(i) == Cardinality({j \in ActiveIdx : j <= i})

\* two characters that are one letter in either case, or the same character
SameLetter(c, d) ==
    c = d \/ \E k \in 1..Len(LowerCase) : {c, d} = {LowerCase[k], UpperCase[k]}

\* two names that differ in letter case at most
SameIgnoringCase(a, b) ==
    Len(a) = Len(b) /\ \A k \in 1..Len(a) : SameLetter(a[k], b[k])

\* C4: the band of every PSC is the highest band named by a substring of one
\* of its control tags, "Unknown" when no tag names one; it is a function of
\* the set of tags, so neither their order nor a lower-band tag changes it.
C4_HighestBandWins ==
    ReportReturned =>
        \A i \in 1..Len(Fetched(pscs_data)) :
            result.obj.beneficial_owners[i].ownership_percentage
                = BandOf(Fetched(pscs_data)[i])

C4_Witness ==
    /\ ReportReturned
    /\ \E i \in 1..Len(Fetched(pscs_data)) :
         LET n == NaturesOf(Fetched(pscs_data)[i])
         IN  /\ Len(n) = 3
             /\ n[1] = TagBare25 /\ n[2] = TagOwn75 /\ n[3] = TagVote50
             /\ result.obj.beneficial_owners[i].ownership_percentage = "75% - 100%"

\* C5: active_directors holds one entry per fetched officer whose
\* resigned_on is null or absent, in the order of the fetched list, and
\* nothing else.
C5_ActiveDirectorsAreTheUnresigned ==
    ReportReturned =>
        LET officers == Fetched(officers_data)
            directors == result.obj.active_directors
        IN  /\ Len(directors) = Cardinality(ActiveIdx)
            /\ \A i \in ActiveIdx :
                 /\ directors[Rank(i)].name = Field(officers[i], "name")
                 /\ directors[Rank(i)].role = Field(officers[i], "officer_role")
                 /\ directors[Rank(i)].appointed = Field(officers[i], "appointed_on")
                 /\ directors[Rank(i)].nationality = Field(officers[i], "nationality")
                 /\ directors[Rank(i)].country_of_residence
                        = Field(officers[i], "country_of_residence")

C5_Witness ==
    /\ ReportReturned
    /\ LET officers == Fetched(officers_data)
           directors == result.obj.active_directors
       IN  /\ Len(officers) = 2
           /\ ~Unresigned(officers[1])
           /\ "resigned_on" \notin DOMAIN officers[2]
           /\ Len(directors) = 1
           /\ directors[1].name = officers[2].name

\* C6: the ownership_percentage of an active director is "0% (Not a PSC)"
\* when no fetched PSC bears the director's name up to letter case, and
\* otherwise the band of the last fetched PSC that does.
C6_DirectorOwnershipByName ==
    ReportReturned =>
        LET officers == Fetched(officers_data)
            pscs == Fetched(pscs_data)
        IN  \A i \in ActiveIdx :
              LET same == {j \in 1..Len(pscs) :
                             SameIgnoringCase(NameOf(pscs[j]), NameOf(officers[i]))}
              IN  result.obj.active_directors[Rank(i)].ownership_percentage
                    = IF same = {} THEN "0% (Not a PSC)" ELSE BandOf(pscs[Max(same)])

C6_Witness ==
    /\ ReportReturned
    /\ LET officers == Fetched(officers_data)
           pscs == Fetched(pscs_data)
           directors == result.obj.active_directors
       IN  /\ Len(officers) = 2 /\ Len(pscs) = 2 /\ Len(directors) = 2
           /\ NameOf(officers[1]) = John_Smith
           /\ NameOf(officers[2]) = SMITH_John
           /\ NameOf(pscs[1]) = JOHN_SMITH /\ BandOf(pscs[1]) = "75% - 100%"
           /\ NameOf(pscs[2]) = john_smith /\ BandOf(pscs[2]) = "Unknown"
           /\ directors[1].ownership_percentage = "Unknown"
           /\ directors[2].ownership_percentage = "0% (Not a PSC)"

\* C7: beneficial_owners holds one entry per fetched PSC, in the order of the
\* fetched list, none left out and none merged, each with the PSC's own
\* fields, its own band and its control tags as fetched.
C7_OneOwnerPerPsc ==
    ReportReturned =>
        LET pscs == Fetched(pscs_data)
            owners == result.obj.beneficial_owners
        IN  /\ Len(owners) = Len(pscs)
            /\ \A i \in 1..Len(pscs) :
                 /\ owners[i].name = Field(pscs[i], "name")
                 /\ owners[i].kind = Field(pscs[i], "kind")
                 /\ owners[i].nationality = Field(pscs[i], "nationality")
                 /\ owners[i].country_of_residence
                        = Field(pscs[i], "country_of_residence")
                 /\ owners[i].ownership_percentage = BandOf(pscs[i])
                 /\ owners[i].natures_of_control = NaturesOf(pscs[i])

C7_Witness ==
    /\ ReportReturned
    /\ LET pscs == Fetched(pscs_data)
           owners == result.obj.beneficial_owners
       IN  /\ Len(pscs) = 2 /\ Len(owners) = 2
           /\ NameOf(pscs[1]) = JANE_DOE /\ NameOf(pscs[2]) = JANE_DOE
           /\ owners[1].ownership_percentage = "Unknown"
           /\ owners[1].natures_of_control = <<TagAppoint>>
           /\ owners[2].ownership_percentage = "50% - 75%"

\* C8: outstanding_charges is the number of fetched charge items whose status
\* is the string "outstanding", and total_charges is the upstream total_count
\* (0 when the body has none), whatever the number of items fetched.
C8_ChargesSummary ==
    ReportReturned =>
        LET items == Fetched(charges_data)
            summary == result.obj.charges_summary
        IN  /\ summary.outstanding_charges
                 = Cardinality({i \in 1..Len(items) :
                       /\ "status" \in DOMAIN items[i]
                       /\ items[i].status = Some("outstanding")})
            /\ summary.total_charges
                 = IF charges_data.isdict /\ "total_count" \in DOMAIN charges_data.obj
                   THEN charges_data.obj.total_count ELSE 0

C8_Witness ==
    /\ ReportReturned
    /\ LET items == Fetched(charges_data)
           summary == result.obj.charges_summary
       IN  /\ Len(items) = 3
           /\ Field(items[1], "status") = Some("outstanding")
           /\ Field(items[2], "status") = Some("Outstanding")
           /\ Field(items[3], "status") = Some("satisfied")
           /\ summary = [total_charges |-> 250, outstanding_charges |-> 1]

-----------------------------------------------------------------------------
(* Properties of the failure signal of the report, checked under Spec *)

\* the transport answered the profile GET with 200 and a body that decoded
ProfileDecoded ==
    /\ ReportCall
    /\ Len(responses) >= 1
    /\ "status_code" \in DOMAIN responses[1]
    /\ responses[1].status_code = 200
    /\ responses[1].decodes

\* the keys of a composite report that the caller relies on
ReportKeys ==
    {"company_name", "active_directors", "beneficial_owners", "charges_summary",
     "full_profile_source"}

\* the error tags of the sub-resource fetches that failed
SubFetchTags ==
    {d.obj.error : d \in {x \in {officers_data, pscs_data, charges_data} :
                             HasErrorTag(x)}}

\* C11: a finished generate_company_report returned a result that carries a
\* top-level "error" key if and only if the profile fetch failed; whenever the
\* transport returned a successfully decoded profile body, whatever its
\* content and whatever the other three fetches came back with, the result is
\* a composite report with the keys of ReportKeys and no top-level "error"
\* key; and an error tag of a failed officers, PSC or charges fetch is never
\* the top-level tag of the result.
C11_ErrorKeyIffProfileFetchFailed ==
    (ReportCall /\ Finished) =>
        /\ outcome = "returned"
        /\ HasErrorTag(result) <=> ~ProfileDecoded
        /\ ProfileDecoded =>
               /\ ReportReturned
               /\ ReportKeys \subseteq DOMAIN result.obj
               /\ "error" \notin DOMAIN result.obj
        /\ HasErrorTag(result) => result.obj.error \notin SubFetchTags

====
